---- MODULE Spec2Model ----
(***************************************************************************)
(* SimpleThreadPool (simple_thread_pool.cpp): a fixed set of worker        *)
(* threads consuming a std::queue<std::string> guarded by queue_mutex_ and *)
(* cv_, printing each task under cout_mutex, and a destructor that sets    *)
(* stop_, wakes every worker and joins them.                               *)
(*                                                                         *)
(* Threads are numbered: MainThread is the thread that runs main() (it     *)
(* constructs the pool, calls Enqueue, and runs the destructor), the       *)
(* workers are 1..num_workers in the order the constructor spawns them,    *)
(* and AuxThread is a second client thread that calls Enqueue concurrently *)
(* (only in SpecLate).  A mutex is the set of threads holding it: {} when  *)
(* unlocked, {t} when locked by t.  A task is the number k of its payload  *)
(* "Message k".                                                            *)
(***************************************************************************)
EXTENDS Integers, Sequences, FiniteSets

\* Largest worker count passed to the constructor.
MaxWorkers == 2
\* Largest number of Enqueue calls made by main()'s loop.
MaxTasks == 3
\* Largest number of Enqueue calls made by the second client thread.
MaxLate == 1
\* Largest worker count plus number of messages of a small run.
MaxRun == 5
\* The same for the runs examined under fair scheduling.
MaxFairRun == 4

VARIABLES
    num_workers,    \* constructor argument
    num_msgs,       \* upper limit of main()'s submission loop
    i,              \* main()'s loop counter
    cpc,            \* program counter of each client thread
    msg,            \* argument of the Enqueue call each client is running
    late,           \* Enqueue calls started so far by the second client
    workers_,       \* std::vector<std::thread>: ids of the spawned workers
    joined,         \* workers joined so far by the destructor's loop
    wpc,            \* program counter of each worker thread
    task,           \* Worker()'s local `task` (NoTask: empty string)
    tasks_,         \* std::queue<std::string>
    queue_mutex_,   \* holders of queue_mutex_
    cout_mutex,     \* holders of the global cout_mutex
    stop_,          \* bool stop_
    alive,          \* the pool object's members have not been destroyed
    fault,          \* undefined behaviour has been executed and crashed
    pushed,         \* history: tasks in the order of tasks_.push
    popped,         \* history: <<worker, task>> in the order of tasks_.pop
    out,            \* std::cout: the chunks written, <<worker, chunk>>
    backlog,        \* history: tasks_ at the moment stop_ was set
    early           \* history: workers that had not yet locked queue_mutex_
                    \* for the first time when notify_all was issued

vars == <<num_workers, num_msgs, i, cpc, msg, late, workers_, joined, wpc,
          task, tasks_, queue_mutex_, cout_mutex, stop_, alive, fault,
          pushed, popped, out, backlog, early>>

\* main(), line 81: SimpleThreadPool pool(2).
MainWorkers == 2
\* main(), line 84: i <= 5.
MainMsgs == 5

MainThread == 0
AuxThread == 0 - 1
Clients == {MainThread, AuxThread}
WorkerIds == 1..(IF MaxWorkers > MainWorkers THEN MaxWorkers ELSE MainWorkers)

\* The runs considered, as <<worker count, number of messages>>: every small
\* one, and the run of main().
SmallRuns == {r \in (0..MaxWorkers) \X (0..MaxTasks) : r[1] + r[2] <= MaxRun}
FairRuns == {r \in SmallRuns : r[1] + r[2] <= MaxFairRun}
MainRun == <<MainWorkers, MainMsgs>>
NoTask == 0
\* The first chunk of an output line: "Thread " << get_id() << ": ".
Header == 0

\* int i = 1 at the head of main()'s loop.
FirstMsg == 1

\* The state before the constructor runs, for a run of `runs`.
InitOf(runs) ==
    /\ \E r \in runs : num_workers = r[1] /\ num_msgs = r[2]
    /\ i = FirstMsg
    /\ cpc = [c \in Clients |-> IF c = MainThread THEN "ctor" ELSE "idle"]
    /\ msg = [c \in Clients |-> NoTask]
    /\ late = 0
    /\ workers_ = <<>>
    /\ joined = 0
    /\ wpc = [w \in WorkerIds |-> "unborn"]
    /\ task = [w \in WorkerIds |-> NoTask]
    /\ tasks_ = <<>>
    /\ queue_mutex_ = {}
    /\ cout_mutex = {}
    /\ stop_ = FALSE
    /\ alive = TRUE
    /\ fault = FALSE
    /\ pushed = <<>>
    /\ popped = <<>>
    /\ out = <<>>
    /\ backlog = <<>>
    /\ early = {}

Init == InitOf(SmallRuns \cup {MainRun})

----------------------------------------------------------------------------
\* main(): what the main thread does after the constructor or an Enqueue
\* call returns: the next iteration of the loop, or the end of the scope.
AfterCall(n) ==
    IF n <= num_msgs THEN "enq_lock" ELSE "dtor_lock"

\* SimpleThreadPool(size_t num_workers): one iteration of the spawning loop,
\* or the constructor's return once the loop is over.
Construct ==
    /\ cpc[MainThread] = "ctor"
    /\ IF Len(workers_) < num_workers
       THEN /\ workers_' = Append(workers_, Len(workers_) + 1)
            /\ wpc' = [wpc EXCEPT ![Len(workers_) + 1] = "lock"]
            /\ UNCHANGED <<cpc, msg>>
       ELSE /\ cpc' = [cpc EXCEPT ![MainThread] = AfterCall(i)]
            /\ msg' = [msg EXCEPT ![MainThread] = IF i <= num_msgs THEN i ELSE NoTask]
            /\ UNCHANGED <<workers_, wpc>>
    /\ UNCHANGED <<num_workers, num_msgs, i, late, joined, task, tasks_,
                   queue_mutex_, cout_mutex, stop_, alive, fault, pushed,
                   popped, out,
                   backlog, early>>

----------------------------------------------------------------------------
\* EnqueueLock for a queue of capacity one: the caller waits until there is
\* room.
EnqueueLock_Bounded(c) ==
    /\ cpc[c] = "enq_lock"
    /\ queue_mutex_ = {}
    /\ Len(tasks_) < 1
    /\ queue_mutex_' = {c}
    /\ cpc' = [cpc EXCEPT ![c] = "enq_push"]
    /\ UNCHANGED <<num_workers, num_msgs, i, msg, late, workers_, joined, wpc,
                   task, tasks_, cout_mutex, stop_, alive, fault, pushed,
                   popped, out, backlog, early>>

\* Enqueue, line 40: std::unique_lock<std::mutex> lock(queue_mutex_).
EnqueueLock(c) ==
    /\ cpc[c] = "enq_lock"
    /\ queue_mutex_ = {}
    /\ queue_mutex_' = {c}
    /\ cpc' = [cpc EXCEPT ![c] = "enq_push"]
    /\ UNCHANGED <<num_workers, num_msgs, i, msg, late, workers_, joined, wpc,
                   task, tasks_, cout_mutex, stop_, alive, fault, pushed,
                   popped, out,
                   backlog, early>>

\* EnqueuePush inserting at the front of the queue.
EnqueuePush_Front(c) ==
    /\ cpc[c] = "enq_push"
    /\ tasks_' = <<msg[c]>> \o tasks_
    /\ pushed' = Append(pushed, msg[c])
    /\ cpc' = [cpc EXCEPT ![c] = "enq_unlock"]
    /\ UNCHANGED <<num_workers, num_msgs, i, msg, late, workers_, joined, wpc,
                   task, queue_mutex_, cout_mutex, stop_, alive, fault,
                   popped, out, backlog, early>>

\* Enqueue, line 41: tasks_.push(msg).
EnqueuePush(c) ==
    /\ cpc[c] = "enq_push"
    /\ tasks_' = Append(tasks_, msg[c])
    /\ pushed' = Append(pushed, msg[c])
    /\ cpc' = [cpc EXCEPT ![c] = "enq_unlock"]
    /\ UNCHANGED <<num_workers, num_msgs, i, msg, late, workers_, joined, wpc,
                   task, queue_mutex_, cout_mutex, stop_, alive, fault,
                   popped, out,
                   backlog, early>>

\* Enqueue, line 42: the unique_lock goes out of scope.
EnqueueUnlock(c) ==
    /\ cpc[c] = "enq_unlock"
    /\ queue_mutex_' = queue_mutex_ \ {c}
    /\ cpc' = [cpc EXCEPT ![c] = "enq_notify"]
    /\ UNCHANGED <<num_workers, num_msgs, i, msg, late, workers_, joined, wpc,
                   task, tasks_, cout_mutex, stop_, alive, fault, pushed,
                   popped, out,
                   backlog, early>>

\* The workers blocked inside cv_.wait.
Waiters == {w \in WorkerIds : wpc[w] = "blocked"}

\* NotifyOne unblocking nobody (the notification left out of Enqueue).
NotifyOne_None(ws) ==
    {{}}

\* cv_.notify_one(): unblocks one of the waiting threads, if there is any.
NotifyOne(ws) ==
    IF ws = {} THEN {{}} ELSE {{w} : w \in ws}

\* NotifyAll unblocking a single waiting thread (notify_one in the
\* destructor).
NotifyAll_One(ws) ==
    IF ws = {} THEN {} ELSE {CHOOSE w \in ws : TRUE}

\* cv_.notify_all(): unblocks every waiting thread.
NotifyAll(ws) == ws

\* Where a client goes when its Enqueue call returns.
EnqueueReturn(c) ==
    IF c = MainThread THEN AfterCall(i + 1) ELSE "idle"

\* Enqueue, line 43: cv_.notify_one(), and the return to the caller (for the
\* main thread, ++i and the loop test of main()).
EnqueueNotify(c) ==
    /\ cpc[c] = "enq_notify"
    /\ \E woken \in NotifyOne(Waiters) :
          wpc' = [w \in WorkerIds |-> IF w \in woken THEN "relock" ELSE wpc[w]]
    /\ cpc' = [cpc EXCEPT ![c] = EnqueueReturn(c)]
    /\ i' = IF c = MainThread THEN i + 1 ELSE i
    /\ msg' = [msg EXCEPT ![c] =
                  IF c = MainThread /\ i + 1 <= num_msgs THEN i + 1 ELSE NoTask]
    /\ UNCHANGED <<num_workers, num_msgs, late, workers_, joined, task, tasks_,
                   queue_mutex_, cout_mutex, stop_, alive, fault, pushed,
                   popped, out,
                   backlog, early>>

----------------------------------------------------------------------------
\* Worker, line 52: std::unique_lock<std::mutex> lock(queue_mutex_).
WorkerLock(w) ==
    /\ wpc[w] = "lock"
    /\ queue_mutex_ = {}
    /\ queue_mutex_' = {w}
    /\ wpc' = [wpc EXCEPT ![w] = "wait"]
    /\ UNCHANGED <<num_workers, num_msgs, i, cpc, msg, late, workers_, joined,
                   task, tasks_, cout_mutex, stop_, alive, fault, pushed,
                   popped, out,
                   backlog, early>>

\* WaitPredicate without stop_: a wait that only a queued task ends.
WaitPredicate_TasksOnly ==
    tasks_ # <<>>

\* Worker, line 54: the predicate of cv_.wait.
WaitPredicate ==
    stop_ \/ tasks_ # <<>>

\* Worker, line 54: cv_.wait(lock, pred) is while (!pred()) wait(lock): with
\* the lock held the predicate is evaluated; when it is false the thread
\* releases the lock and blocks, in one atomic step.
WorkerWait(w) ==
    /\ wpc[w] = "wait"
    /\ IF WaitPredicate
       THEN /\ wpc' = [wpc EXCEPT ![w] = "check"]
            /\ UNCHANGED queue_mutex_
       ELSE /\ wpc' = [wpc EXCEPT ![w] = "blocked"]
            /\ queue_mutex_' = queue_mutex_ \ {w}
    /\ UNCHANGED <<num_workers, num_msgs, i, cpc, msg, late, workers_, joined,
                   task, tasks_, cout_mutex, stop_, alive, fault, pushed,
                   popped, out,
                   backlog, early>>

\* Worker, line 54: a blocked thread may wake up spuriously.
WorkerSpuriousWake(w) ==
    /\ wpc[w] = "blocked"
    /\ wpc' = [wpc EXCEPT ![w] = "relock"]
    /\ UNCHANGED <<num_workers, num_msgs, i, cpc, msg, late, workers_, joined,
                   task, tasks_, queue_mutex_, cout_mutex, stop_, alive, fault,
                   pushed, popped, out,
                   backlog, early>>

\* WorkerRelock for a wait without a loop (cv_.wait(lock) under an if): the
\* unblocked thread reacquires the lock and goes on to line 56 without
\* evaluating the predicate again.
WorkerRelock_NoRecheck(w) ==
    /\ wpc[w] = "relock"
    /\ queue_mutex_ = {}
    /\ queue_mutex_' = {w}
    /\ wpc' = [wpc EXCEPT ![w] = "check"]
    /\ UNCHANGED <<num_workers, num_msgs, i, cpc, msg, late, workers_, joined,
                   task, tasks_, cout_mutex, stop_, alive, fault, pushed,
                   popped, out, backlog, early>>

\* Worker, line 54: an unblocked thread reacquires the lock before wait
\* evaluates the predicate again.
WorkerRelock(w) ==
    /\ wpc[w] = "relock"
    /\ queue_mutex_ = {}
    /\ queue_mutex_' = {w}
    /\ wpc' = [wpc EXCEPT ![w] = "wait"]
    /\ UNCHANGED <<num_workers, num_msgs, i, cpc, msg, late, workers_, joined,
                   task, tasks_, cout_mutex, stop_, alive, fault, pushed,
                   popped, out,
                   backlog, early>>

\* ExitCondition without the test of the queue: a worker that leaves as soon
\* as it sees stop_, whatever is still queued.
ExitCondition_NoDrain ==
    stop_

\* Worker, line 56: the condition of the return.
ExitCondition ==
    stop_ /\ tasks_ = <<>>

\* Worker, line 56: if (stop_ && tasks_.empty()) return; the return destroys
\* the unique_lock, which releases queue_mutex_, and ends the thread.
WorkerCheckStop(w) ==
    /\ wpc[w] = "check"
    /\ IF ExitCondition
       THEN /\ wpc' = [wpc EXCEPT ![w] = "done"]
            /\ queue_mutex_' = queue_mutex_ \ {w}
       ELSE /\ wpc' = [wpc EXCEPT ![w] = "pop"]
            /\ UNCHANGED queue_mutex_
    /\ UNCHANGED <<num_workers, num_msgs, i, cpc, msg, late, workers_, joined,
                   task, tasks_, cout_mutex, stop_, alive, fault, pushed,
                   popped, out,
                   backlog, early>>

\* WorkerPop without tasks_.pop(): the front element is read and stays in the
\* queue.
WorkerPop_NoPop(w) ==
    /\ wpc[w] = "pop"
    /\ tasks_ # <<>>
    /\ task' = [task EXCEPT ![w] = Head(tasks_)]
    /\ popped' = Append(popped, <<w, Head(tasks_)>>)
    /\ wpc' = [wpc EXCEPT ![w] = "unlock"]
    /\ UNCHANGED <<num_workers, num_msgs, i, cpc, msg, late, workers_, joined,
                   tasks_, queue_mutex_, cout_mutex, stop_, alive, fault,
                   pushed, out, backlog, early>>

\* WorkerPop taking the newest element (a stack instead of a queue).
WorkerPop_Lifo(w) ==
    /\ wpc[w] = "pop"
    /\ tasks_ # <<>>
    /\ task' = [task EXCEPT ![w] = tasks_[Len(tasks_)]]
    /\ tasks_' = SubSeq(tasks_, 1, Len(tasks_) - 1)
    /\ popped' = Append(popped, <<w, tasks_[Len(tasks_)]>>)
    /\ wpc' = [wpc EXCEPT ![w] = "unlock"]
    /\ UNCHANGED <<num_workers, num_msgs, i, cpc, msg, late, workers_, joined,
                   queue_mutex_, cout_mutex, stop_, alive, fault, pushed, out,
                   backlog, early>>

\* Worker, lines 58-59: task = std::move(tasks_.front()); tasks_.pop().
\* front() and pop() on an empty queue are undefined behaviour: the thread
\* may crash, or go on with whatever value the read produced.
WorkerPop(w) ==
    /\ wpc[w] = "pop"
    /\ IF tasks_ # <<>>
       THEN /\ task' = [task EXCEPT ![w] = Head(tasks_)]
            /\ tasks_' = Tail(tasks_)
            /\ popped' = Append(popped, <<w, Head(tasks_)>>)
            /\ wpc' = [wpc EXCEPT ![w] = "unlock"]
            /\ UNCHANGED fault
       ELSE /\ fault' = TRUE
            /\ \E t \in {NoTask} \cup {pushed[k] : k \in 1..Len(pushed)} :
                  /\ task' = [task EXCEPT ![w] = t]
                  /\ popped' = Append(popped, <<w, t>>)
            /\ \/ wpc' = [wpc EXCEPT ![w] = "unlock"]
               \/ wpc' = [wpc EXCEPT ![w] = "crashed"]
            /\ UNCHANGED tasks_
    /\ UNCHANGED <<num_workers, num_msgs, i, cpc, msg, late, workers_, joined,
                   queue_mutex_, cout_mutex, stop_, alive, pushed, out,
                   backlog, early>>

\* WorkerUnlock for a lock that outlives the block of lines 50-60: the worker
\* goes on to the output with queue_mutex_ still held.
WorkerUnlock_KeepLock(w) ==
    /\ wpc[w] = "unlock"
    /\ wpc' = [wpc EXCEPT ![w] = "cout_lock"]
    /\ UNCHANGED <<num_workers, num_msgs, i, cpc, msg, late, workers_, joined,
                   task, tasks_, queue_mutex_, cout_mutex, stop_, alive, fault,
                   pushed, popped, out, backlog, early>>

\* Worker, line 60: the unique_lock goes out of scope.
WorkerUnlock(w) ==
    /\ wpc[w] = "unlock"
    /\ queue_mutex_' = queue_mutex_ \ {w}
    /\ wpc' = [wpc EXCEPT ![w] = "cout_lock"]
    /\ UNCHANGED <<num_workers, num_msgs, i, cpc, msg, late, workers_, joined,
                   task, tasks_, cout_mutex, stop_, alive, fault, pushed,
                   popped, out,
                   backlog, early>>

\* WorkerCoutLock without mutual exclusion: the worker goes on to write
\* whether or not another thread holds cout_mutex.
WorkerCoutLock_NoMutex(w) ==
    /\ wpc[w] = "cout_lock"
    /\ cout_mutex' = cout_mutex \cup {w}
    /\ wpc' = [wpc EXCEPT ![w] = "print_header"]
    /\ UNCHANGED <<num_workers, num_msgs, i, cpc, msg, late, workers_, joined,
                   task, tasks_, queue_mutex_, stop_, alive, fault, pushed,
                   popped, out, backlog, early>>

\* Worker, line 63: std::lock_guard<std::mutex> lock(cout_mutex).
WorkerCoutLock(w) ==
    /\ wpc[w] = "cout_lock"
    /\ cout_mutex = {}
    /\ cout_mutex' = {w}
    /\ wpc' = [wpc EXCEPT ![w] = "print_header"]
    /\ UNCHANGED <<num_workers, num_msgs, i, cpc, msg, late, workers_, joined,
                   task, tasks_, queue_mutex_, stop_, alive, fault, pushed,
                   popped, out,
                   backlog, early>>

\* Worker, line 64: std::cout << "Thread " << get_id() << ": ".
WorkerPrintHeader(w) ==
    /\ wpc[w] = "print_header"
    /\ out' = Append(out, <<w, Header>>)
    /\ wpc' = [wpc EXCEPT ![w] = "print_task"]
    /\ UNCHANGED <<num_workers, num_msgs, i, cpc, msg, late, workers_, joined,
                   task, tasks_, queue_mutex_, cout_mutex, stop_, alive, fault,
                   pushed, popped,
                   backlog, early>>

\* Worker, line 64: ... << task << std::endl.
WorkerPrintTask(w) ==
    /\ wpc[w] = "print_task"
    /\ out' = Append(out, <<w, task[w]>>)
    /\ wpc' = [wpc EXCEPT ![w] = "cout_unlock"]
    /\ UNCHANGED <<num_workers, num_msgs, i, cpc, msg, late, workers_, joined,
                   task, tasks_, queue_mutex_, cout_mutex, stop_, alive, fault,
                   pushed, popped,
                   backlog, early>>

\* Worker, line 65: the lock_guard goes out of scope.
WorkerCoutUnlock(w) ==
    /\ wpc[w] = "cout_unlock"
    /\ cout_mutex' = cout_mutex \ {w}
    /\ wpc' = [wpc EXCEPT ![w] = "sleep"]
    /\ UNCHANGED <<num_workers, num_msgs, i, cpc, msg, late, workers_, joined,
                   task, tasks_, queue_mutex_, stop_, alive, fault, pushed,
                   popped, out,
                   backlog, early>>

\* Worker, lines 66-67 and 48-49: sleep_for(100ms), then the next iteration
\* of while (true), which declares a fresh, empty `task`.
WorkerSleep(w) ==
    /\ wpc[w] = "sleep"
    /\ wpc' = [wpc EXCEPT ![w] = "lock"]
    /\ task' = [task EXCEPT ![w] = NoTask]
    /\ UNCHANGED <<num_workers, num_msgs, i, cpc, msg, late, workers_, joined,
                   tasks_, queue_mutex_, cout_mutex, stop_, alive, fault,
                   pushed, popped, out,
                   backlog, early>>

----------------------------------------------------------------------------
\* DtorLock without the lock: the destructor goes on to write stop_ without
\* acquiring queue_mutex_.
DtorLock_NoLock ==
    /\ cpc[MainThread] = "dtor_lock"
    /\ cpc' = [cpc EXCEPT ![MainThread] = "dtor_stop"]
    /\ UNCHANGED <<num_workers, num_msgs, i, msg, late, workers_, joined, wpc,
                   task, tasks_, queue_mutex_, cout_mutex, stop_, alive, fault,
                   pushed, popped, out, backlog, early>>

\* ~SimpleThreadPool, line 31: std::unique_lock<std::mutex> lock(queue_mutex_).
DtorLock ==
    /\ cpc[MainThread] = "dtor_lock"
    /\ queue_mutex_ = {}
    /\ queue_mutex_' = {MainThread}
    /\ cpc' = [cpc EXCEPT ![MainThread] = "dtor_stop"]
    /\ UNCHANGED <<num_workers, num_msgs, i, msg, late, workers_, joined, wpc,
                   task, tasks_, cout_mutex, stop_, alive, fault, pushed,
                   popped, out,
                   backlog, early>>

\* ~SimpleThreadPool, line 32: stop_ = true.
DtorSetStop ==
    /\ cpc[MainThread] = "dtor_stop"
    /\ stop_' = TRUE
    /\ backlog' = tasks_
    /\ cpc' = [cpc EXCEPT ![MainThread] = "dtor_unlock"]
    /\ UNCHANGED <<num_workers, num_msgs, i, msg, late, workers_, joined, wpc,
                   task, tasks_, queue_mutex_, cout_mutex, alive, fault,
                   pushed, popped, out, early>>

\* ~SimpleThreadPool, line 33: the unique_lock goes out of scope.
DtorUnlock ==
    /\ cpc[MainThread] = "dtor_unlock"
    /\ queue_mutex_' = queue_mutex_ \ {MainThread}
    /\ cpc' = [cpc EXCEPT ![MainThread] = "dtor_notify"]
    /\ UNCHANGED <<num_workers, num_msgs, i, msg, late, workers_, joined, wpc,
                   task, tasks_, cout_mutex, stop_, alive, fault, pushed,
                   popped, out,
                   backlog, early>>

\* ~SimpleThreadPool, line 34: cv_.notify_all().
DtorNotifyAll ==
    /\ cpc[MainThread] = "dtor_notify"
    /\ wpc' = [w \in WorkerIds |->
                  IF w \in NotifyAll(Waiters) THEN "relock" ELSE wpc[w]]
    /\ cpc' = [cpc EXCEPT ![MainThread] = "dtor_join"]
    /\ early' = {w \in WorkerIds :
                    wpc[w] = "lock" /\ \A k \in 1..Len(popped) : popped[k][1] # w}
    /\ UNCHANGED <<num_workers, num_msgs, i, msg, late, workers_, joined, task,
                   tasks_, queue_mutex_, cout_mutex, stop_, alive, fault,
                   pushed, popped, out, backlog>>

\* Joinable for a destructor that does not wait for the thread (detach
\* instead of join).
Joinable_Detached(t) == TRUE

\* std::thread::join() returns once the thread has finished executing.
Joinable(t) == wpc[t] = "done"

\* ~SimpleThreadPool, line 35: for (auto& t : workers_) t.join(), one
\* iteration.
DtorJoin ==
    /\ cpc[MainThread] = "dtor_join"
    /\ joined < Len(workers_)
    /\ Joinable(workers_[joined + 1])
    /\ joined' = joined + 1
    /\ UNCHANGED <<num_workers, num_msgs, i, cpc, msg, late, workers_, wpc,
                   task, tasks_, queue_mutex_, cout_mutex, stop_, alive, fault,
                   pushed, popped, out,
                   backlog, early>>

\* ~SimpleThreadPool, line 36: the loop is over and the destructor's body
\* returns; the members (lines 70-74) are then destroyed.
DtorReturn ==
    /\ cpc[MainThread] = "dtor_join"
    /\ joined = Len(workers_)
    /\ cpc' = [cpc EXCEPT ![MainThread] = "done"]
    /\ alive' = FALSE
    /\ UNCHANGED <<num_workers, num_msgs, i, msg, late, workers_, joined, wpc,
                   task, tasks_, queue_mutex_, cout_mutex, stop_, fault,
                   pushed, popped, out,
                   backlog, early>>

----------------------------------------------------------------------------
\* The steps of worker w.
Worker(w) ==
    \/ WorkerLock(w)
    \/ WorkerWait(w)
    \/ WorkerSpuriousWake(w)
    \/ WorkerRelock(w)
    \/ WorkerCheckStop(w)
    \/ WorkerPop(w)
    \/ WorkerUnlock(w)
    \/ WorkerCoutLock(w)
    \/ WorkerPrintHeader(w)
    \/ WorkerPrintTask(w)
    \/ WorkerCoutUnlock(w)
    \/ WorkerSleep(w)

\* The steps of an Enqueue call by client c.
Enqueue(c) ==
    \/ EnqueueLock(c)
    \/ EnqueuePush(c)
    \/ EnqueueUnlock(c)
    \/ EnqueueNotify(c)

\* The steps of the destructor.
Destructor ==
    \/ DtorLock
    \/ DtorSetStop
    \/ DtorUnlock
    \/ DtorNotifyAll
    \/ DtorJoin
    \/ DtorReturn

----------------------------------------------------------------------------
\* The Enqueue steps, which read or write members of the pool.
InEnqueue(c) ==
    cpc[c] \in {"enq_lock", "enq_push", "enq_unlock", "enq_notify"}

\* A second client thread calls pool.Enqueue(msg) after the destructor has
\* set stop_ and while the pool still exists: Enqueue is public and nothing
\* orders such a call against the destructor.  Its k-th message is numbered
\* -k.
LateCall ==
    /\ cpc[AuxThread] = "idle"
    /\ stop_
    /\ alive
    /\ late < MaxLate
    /\ late' = late + 1
    /\ cpc' = [cpc EXCEPT ![AuxThread] = "enq_lock"]
    /\ msg' = [msg EXCEPT ![AuxThread] = 0 - (late + 1)]
    /\ UNCHANGED <<num_workers, num_msgs, i, workers_, joined, wpc, task,
                   tasks_, queue_mutex_, cout_mutex, stop_, alive, fault,
                   pushed, popped, out, backlog, early>>

\* A step of Enqueue on a pool whose members queue_mutex_, tasks_ and cv_
\* have been destroyed is undefined behaviour: the step may go on as if the
\* members were still there (the Enqueue actions stay enabled), or crash.
UseAfterDestroy(c) ==
    /\ InEnqueue(c)
    /\ ~alive
    /\ fault' = TRUE
    /\ cpc' = [cpc EXCEPT ![c] = "crashed"]
    /\ UNCHANGED <<num_workers, num_msgs, i, msg, late, workers_, joined, wpc,
                   task, tasks_, queue_mutex_, cout_mutex, stop_, alive,
                   pushed, popped, out, backlog, early>>

\* main(): the pool is constructed, num_msgs messages are submitted by the
\* main thread, and the pool goes out of scope.
Next ==
    \/ Construct
    \/ Enqueue(MainThread)
    \/ Destructor
    \/ \E w \in WorkerIds : Worker(w)

Spec == Init /\ [][Next]_vars

\* The same program with a second client thread submitting while the
\* destructor runs.
NextLate ==
    \/ Next
    \/ LateCall
    \/ Enqueue(AuxThread)
    \/ UseAfterDestroy(AuxThread)

SpecLate == InitOf(SmallRuns) /\ [][NextLate]_vars

\* The steps of worker w that it is the scheduler's to run: all but the
\* spurious wake-up.
WorkerRun(w) ==
    \/ WorkerLock(w)
    \/ WorkerWait(w)
    \/ WorkerRelock(w)
    \/ WorkerCheckStop(w)
    \/ WorkerPop(w)
    \/ WorkerUnlock(w)
    \/ WorkerCoutLock(w)
    \/ WorkerPrintHeader(w)
    \/ WorkerPrintTask(w)
    \/ WorkerCoutUnlock(w)
    \/ WorkerSleep(w)

\* The steps of the main thread.
MainRuns ==
    \/ Construct
    \/ Enqueue(MainThread)
    \/ Destructor

\* Scheduling: a thread that can take a step again and again eventually
\* takes one.  Every step but the locking of a mutex stays possible until it
\* is taken, so this is weak fairness for those steps, and for a thread
\* locking a mutex it means that it gets the mutex if the mutex is free again
\* and again.  Spurious wake-ups may happen but need not.
Fairness ==
    /\ SF_vars(MainRuns)
    /\ \A w \in WorkerIds : SF_vars(WorkerRun(w))

\* The small runs under fair scheduling.
FairSpec == InitOf(FairRuns) /\ [][Next]_vars /\ Fairness

\* main() up to the closing brace of line 87: the pool has been constructed
\* and the messages submitted, and the pool stays in scope (the destructor
\* is not called).
NextRunning ==
    \/ Construct
    \/ Enqueue(MainThread)
    \/ \E w \in WorkerIds : Worker(w)

\* The same scheduling, for a main thread that does not run the destructor.
FairnessRunning ==
    /\ SF_vars(Construct \/ Enqueue(MainThread))
    /\ \A w \in WorkerIds : SF_vars(WorkerRun(w))

\* The small runs under fair scheduling while the pool stays in scope.
RunningSpec == InitOf(FairRuns) /\ [][NextRunning]_vars /\ FairnessRunning

----------------------------------------------------------------------------
\* Observations used by the properties below.

\* The tasks removed from tasks_, in the order of the pops.
PoppedTasks == [k \in 1..Len(popped) |-> popped[k][2]]

IsPayload(chunk) == chunk[2] # Header

\* The tasks whose line has been written to std::cout, in output order.
PrintedTasks ==
    LET lines == SelectSeq(out, IsPayload)
    IN  [k \in 1..Len(lines) |-> lines[k][2]]

\* How many times x occurs in seq.
Count(seq, x) == Cardinality({k \in 1..Len(seq) : seq[k] = x})

\* The tasks worker w has dequeued and not yet printed.
InHand(w) ==
    {popped[k][2] : k \in {j \in 1..Len(popped) : popped[j][1] = w}}
      \ {out[k][2] : k \in {j \in 1..Len(out) : out[j][1] = w /\ IsPayload(out[j])}}

\* The workers the constructor was asked to spawn.
Pool == 1..num_workers

Returned == cpc[MainThread] = "done"

----------------------------------------------------------------------------
\* C1 (no task loss): with at least one worker, when the destructor has
\* returned every one of the num_msgs submitted tasks has been pushed,
\* dequeued exactly once and printed exactly once, nothing else has been
\* dequeued or printed, and tasks_ is empty.  Spec contains the run of
\* main(): 2 workers, messages 1..5.
C1_NoTaskLoss ==
    (Returned /\ num_workers >= 1) =>
        /\ tasks_ = <<>>
        /\ Len(pushed) = num_msgs
        /\ Len(popped) = num_msgs
        /\ Len(PrintedTasks) = num_msgs
        /\ \A t \in 1..num_msgs :
              /\ Count(pushed, t) = 1
              /\ Count(PoppedTasks, t) = 1
              /\ Count(PrintedTasks, t) = 1

\* The run of main() has ended: 2 workers, 5 messages, 5 lines.
C1_Witness ==
    /\ Returned
    /\ num_workers = MainWorkers
    /\ num_msgs = MainMsgs
    /\ Len(PrintedTasks) = MainMsgs
    /\ backlog # <<>>

\* C2 (no duplication): in every state each task has been removed from
\* tasks_ at most once and printed at most once, only pushed tasks are
\* removed or printed, and no worker has more than one dequeued task that it
\* has not printed yet.
C2_NoDuplication ==
    /\ \A k \in 1..Len(pushed) :
          /\ Count(PoppedTasks, pushed[k]) <= 1
          /\ Count(PrintedTasks, pushed[k]) <= 1
    /\ \A k \in 1..Len(popped) : Count(pushed, popped[k][2]) = 1
    /\ \A k \in 1..Len(PrintedTasks) : Count(PoppedTasks, PrintedTasks[k]) = 1
    /\ \A w \in WorkerIds : Cardinality(InHand(w)) <= 1

\* Two workers each hold a dequeued task at the same time while a third
\* task has already gone through.
C2_Witness ==
    /\ \E v, w \in WorkerIds :
          v # w /\ task[v] # NoTask /\ task[w] # NoTask /\ task[v] # task[w]
    /\ Len(popped) >= 3
    /\ Len(PrintedTasks) >= 1

\* C3 (FIFO dequeue): the tasks in the order of the pops, over all workers,
\* are a prefix of the tasks in the order of the pushes.
C3_FifoDequeue ==
    /\ Len(popped) <= Len(pushed)
    /\ PoppedTasks = SubSeq(pushed, 1, Len(popped))

\* Three tasks have been dequeued, by more than one worker, while two tasks
\* were queued at once.
C3_Witness ==
    /\ Len(popped) >= 3
    /\ popped[1][1] # popped[2][1]
    /\ Len(backlog) >= 2

\* C4 (clean termination): when the destructor has returned, every worker
\* of the pool has terminated.
C4_CleanTermination ==
    Returned => \A w \in Pool : wpc[w] = "done"

\* The destructor has returned for a pool of two workers that executed
\* tasks, some of them after stop_ was set.
C4_Witness ==
    /\ Returned
    /\ num_workers >= 2
    /\ joined = num_workers
    /\ backlog # <<>>
    /\ popped # <<>>

\* C5 (teardown terminates): under fair scheduling, once the destructor is
\* called it eventually returns.
C5_TeardownTerminates ==
    (cpc[MainThread] = "dtor_lock") ~> Returned

\* The destructor has returned although it was called with two tasks still
\* queued and a worker that had not started yet.
C5_Witness ==
    /\ Returned
    /\ Len(backlog) >= 2
    /\ early # {}
    /\ num_workers >= 2

\* The workers inside the output section of lines 62-65.
InOutput == {w \in WorkerIds : wpc[w] \in {"print_header", "print_task", "cout_unlock"}}

\* The output consists of whole lines: a header chunk and then the task
\* chunk of the same worker; a header that ends the output belongs to the
\* worker that is about to write its task.
WholeLines ==
    \A k \in 1..Len(out) :
        IF k % 2 = 1
        THEN /\ ~IsPayload(out[k])
             /\ k = Len(out) => wpc[out[k][1]] = "print_task"
        ELSE /\ IsPayload(out[k])
             /\ out[k][1] = out[k - 1][1]

\* C6 (output non-interleaving): at most one worker is inside the output
\* section, that worker holds cout_mutex, and every line of the output was
\* written whole by one worker.
C6_OutputNonInterleaving ==
    /\ Cardinality(InOutput) <= 1
    /\ \A w \in InOutput : cout_mutex = {w}
    /\ WholeLines

\* A worker has written half of its line while another worker, which has
\* its task in hand, waits for cout_mutex, after a line of that other worker.
C6_Witness ==
    \E v, w \in WorkerIds :
        /\ v # w
        /\ wpc[v] = "print_task"
        /\ wpc[w] = "cout_lock"
        /\ Len(out) = 3
        /\ out[1][1] = w
        /\ out[3][1] = v

\* C7 (zero-task scenario): when nothing is submitted, under fair scheduling
\* the destructor returns, and no task is ever dequeued or printed.
C7_ZeroTask ==
    /\ (num_msgs = 0) ~> Returned
    /\ [](num_msgs = 0 => popped = <<>> /\ out = <<>>)

\* Nothing was submitted and the destructor has returned, although when it
\* issued notify_all some worker had not yet locked queue_mutex_ for its
\* first wait.
C7_Witness ==
    /\ num_msgs = 0
    /\ Returned
    /\ num_workers >= 2
    /\ early # {}

\* C8 (single-worker ordering): with one worker the tasks are printed in the
\* order of the pushes, and after the destructor's return all of them are.
C8_SingleWorkerOrder ==
    num_workers = 1 =>
        /\ Len(PrintedTasks) <= Len(pushed)
        /\ PrintedTasks = SubSeq(pushed, 1, Len(PrintedTasks))
        /\ Returned => PrintedTasks = pushed

\* A single worker has printed three tasks and the destructor has returned;
\* two of the tasks were still queued when stop_ was set.
C8_Witness ==
    /\ num_workers = 1
    /\ Returned
    /\ Len(PrintedTasks) >= 3
    /\ Len(backlog) >= 2

\* C9 (submission is non-blocking): a client inside Enqueue holds
\* queue_mutex_ exactly while it is at the push or about to unlock, and under
\* fair scheduling the k-th Enqueue call of main() returns (i becomes k + 1).
C9_EnqueueNonBlocking ==
    /\ [](\A c \in Clients :
             InEnqueue(c) => (c \in queue_mutex_ <=> cpc[c] \in {"enq_push", "enq_unlock"}))
    /\ \A k \in 1..MaxTasks :
          (cpc[MainThread] = "enq_lock" /\ i = k) ~> (i > k)

\* The third Enqueue call has pushed its task behind another queued task and
\* is about to return, while a worker sleeps and no worker is waiting.
C9_Witness ==
    /\ cpc[MainThread] = "enq_notify"
    /\ i = 3
    /\ Len(tasks_) >= 2
    /\ \E w \in WorkerIds : wpc[w] = "sleep"
    /\ Waiters = {}

\* The tasks pushed by the second client, all of them after stop_ was set.
LateTasks == {pushed[k] : k \in {j \in 1..Len(pushed) : pushed[j] < 0}}

\* What holds of a late submission: the destructor returns only after every
\* worker has terminated, no task is dequeued or printed twice, and once the
\* destructor has returned a late task that was pushed has either been
\* printed once or is still in tasks_.
LateSubmissionOutcome ==
    /\ Returned => \A w \in Pool : wpc[w] = "done"
    /\ \A k \in 1..Len(pushed) :
          /\ Count(PoppedTasks, pushed[k]) <= 1
          /\ Count(PrintedTasks, pushed[k]) <= 1
    /\ Returned =>
          \A t \in LateTasks :
              Count(PrintedTasks, t) + Count(tasks_, t) = 1

\* C10 (late submission), for a pool that has workers: an Enqueue whose push
\* comes after stop_ was set completes without error (no step of it is
\* undefined behaviour that crashes), and LateSubmissionOutcome holds.
C10_LateSubmission ==
    num_workers >= 1 =>
        /\ ~fault
        /\ cpc[AuxThread] # "crashed"
        /\ LateSubmissionOutcome

\* C11 (drain before exit): a worker terminates only by a step it takes
\* from line 56 while it holds queue_mutex_, stop_ is true and tasks_ is
\* empty; hence no worker has terminated while stop_ is false.
C11_DrainBeforeExit ==
    /\ [][\A w \in WorkerIds :
             (wpc[w] # "done" /\ wpc'[w] = "done") =>
                 /\ wpc[w] = "check"
                 /\ w \in queue_mutex_
                 /\ stop_
                 /\ tasks_ = <<>>
                 /\ tasks_' = <<>>]_vars
    /\ [](\A w \in WorkerIds : wpc[w] = "done" => stop_)

\* A worker has terminated after it dequeued a task that was still queued
\* when stop_ was set.
C11_Witness ==
    \E w \in WorkerIds :
        /\ wpc[w] = "done"
        /\ Len(backlog) >= 2
        /\ \E k \in 1..Len(popped) :
              /\ popped[k][1] = w
              /\ popped[k][2] = backlog[Len(backlog)]

\* C12 (no missed wake-up while running): with at least one worker, under
\* fair scheduling and without any destructor call, every pushed task is
\* eventually dequeued and printed.
C12_NoMissedWakeup ==
    \A t \in 1..MaxTasks :
        (num_workers >= 1 /\ Count(pushed, t) = 1)
            ~> (Count(PoppedTasks, t) = 1 /\ Count(PrintedTasks, t) = 1)

\* stop_ is still false, both submitted tasks have been printed, and the
\* two workers are blocked in the wait again.
C12_Witness ==
    /\ ~stop_
    /\ num_workers = 2
    /\ num_msgs >= 2
    /\ Len(PrintedTasks) = num_msgs
    /\ Waiters = Pool

\* The workers that wait for or hold cout_mutex, write, or sleep (lines
\* 62-66).
AtWork ==
    {w \in WorkerIds :
        wpc[w] \in {"cout_lock", "print_header", "print_task", "cout_unlock", "sleep"}}

\* C13 (queue lock released before work): no worker holds queue_mutex_
\* while it waits for or holds cout_mutex, writes or sleeps, and no thread
\* holds both mutexes.
C13_QueueLockReleased ==
    /\ \A w \in AtWork : w \notin queue_mutex_
    /\ queue_mutex_ \cap cout_mutex = {}

\* One worker is in the middle of its line and another sleeps while the main
\* thread holds queue_mutex_ for a push.
C13_Witness ==
    \E v, w \in WorkerIds :
        /\ wpc[v] = "print_task"
        /\ wpc[w] = "sleep"
        /\ queue_mutex_ = {MainThread}
        /\ cpc[MainThread] = "enq_push"

\* The destructor is past line 32.
StopWritten ==
    cpc[MainThread] \in {"dtor_unlock", "dtor_notify", "dtor_join", "done"}

\* C14 (shutdown flag discipline): stop_ is false until the destructor has
\* executed line 32 and true from then on; every step that changes stop_ is
\* the destructor's line 32, taken while the main thread is the holder of
\* queue_mutex_, and sets it to true; once true, stop_ stays true.
C14_StopFlagDiscipline ==
    /\ [](stop_ <=> StopWritten)
    /\ [][stop_' # stop_ =>
             /\ cpc[MainThread] = "dtor_stop"
             /\ queue_mutex_ = {MainThread}
             /\ stop_' = TRUE]_vars
    /\ [][stop_ => stop_']_vars

\* stop_ has been set while a task was still queued and a worker slept, and
\* the destructor now waits in its join loop.
C14_Witness ==
    /\ stop_
    /\ cpc[MainThread] = "dtor_join"
    /\ tasks_ # <<>>
    /\ \E w \in WorkerIds : wpc[w] = "sleep"

\* C15 (atomic check-then-block): every step by which a worker becomes
\* blocked in cv_.wait, for the first time or after a wake-up, is taken from
\* the evaluation of the predicate with queue_mutex_ held, tasks_ empty and
\* stop_ false, and releases the mutex in the same step.
C15_AtomicCheckThenBlock ==
    [][\A w \in WorkerIds :
          (wpc[w] # "blocked" /\ wpc'[w] = "blocked") =>
              /\ wpc[w] = "wait"
              /\ queue_mutex_ = {w}
              /\ tasks_ = <<>>
              /\ ~stop_
              /\ queue_mutex_' = {}]_vars

\* A worker is blocked with the queue empty and stop_ false after the other
\* worker has taken the only task pushed so far.
C15_Witness ==
    \E v, w \in WorkerIds :
        /\ v # w
        /\ wpc[w] = "blocked"
        /\ wpc[v] = "sleep"
        /\ Len(pushed) = 1
        /\ tasks_ = <<>>
        /\ ~stop_

\* The destructor is past line 34.
NotifyAllIssued ==
    cpc[MainThread] \in {"dtor_join", "done"}

\* C16 (shutdown wakes everyone): when the destructor is about to issue
\* notify_all, stop_ is true and the destructor does not hold queue_mutex_;
\* and in every state after notify_all was issued no worker is blocked in
\* cv_.wait.
C16_ShutdownWakesAll ==
    /\ cpc[MainThread] = "dtor_notify" => (stop_ /\ MainThread \notin queue_mutex_)
    /\ NotifyAllIssued => (stop_ /\ Waiters = {})

\* notify_all has just unblocked both workers of the pool: the destructor
\* is at its join loop and the two workers are about to reacquire the lock.
C16_Witness ==
    /\ cpc[MainThread] = "dtor_join"
    /\ num_workers = 2
    /\ early = {}
    /\ \A w \in Pool : wpc[w] = "relock"

\* C17 (no pop from an empty queue): a worker at lines 58-59 holds
\* queue_mutex_ and finds tasks_ non-empty, so front() and pop() are never
\* executed on an empty queue.
C17_NoPopFromEmpty ==
    /\ \A w \in WorkerIds : wpc[w] = "pop" => (tasks_ # <<>> /\ queue_mutex_ = {w})
    /\ \A w \in WorkerIds : wpc[w] # "crashed"
    /\ \A k \in 1..Len(popped) : popped[k][2] # NoTask

\* A worker is about to take the only queued task while the other worker,
\* unblocked from its wait, is about to reacquire the lock and find the
\* queue empty; stop_ is false.
C17_Witness ==
    \E v, w \in WorkerIds :
        /\ v # w
        /\ wpc[v] = "pop"
        /\ Len(tasks_) = 1
        /\ wpc[w] = "relock"
        /\ ~stop_

\* The lines written so far are not in the order of the pushes.
OutOfOrder ==
    \E k \in 1..Len(PrintedTasks) : k > Len(pushed) \/ PrintedTasks[k] # pushed[k]

\* The pops so far are in the order of the pushes.
DequeuedInOrder ==
    \A k \in 1..Len(popped) : k <= Len(pushed) /\ popped[k][2] = pushed[k]

\* C18 (completion order is not FIFO with several workers): output out of
\* submission order occurs (C18_Witness is reachable), and whenever it
\* occurs there are at least 2 workers and 2 pushed tasks and the dequeue
\* order is still FIFO; a worker that waits for or holds cout_mutex has
\* released queue_mutex_.
C18_CompletionOrder ==
    /\ OutOfOrder => (num_workers >= 2 /\ Len(pushed) >= 2 /\ DequeuedInOrder)
    /\ \A w \in WorkerIds :
          (wpc[w] = "cout_lock" \/ w \in cout_mutex) => w \notin queue_mutex_

\* With two workers the line of the second task pushed has been written
\* before the line of the first, although the first was dequeued first.
C18_Witness ==
    /\ num_workers >= 2
    /\ Len(PrintedTasks) >= 2
    /\ PrintedTasks[1] = pushed[2]
    /\ PrintedTasks[2] = pushed[1]
    /\ popped[1][2] = pushed[1]
    /\ popped[2][2] = pushed[2]
    /\ OutOfOrder
    /\ DequeuedInOrder

====
